---------------------------- MODULE Spec2Model ----------------------------
(***************************************************************************)
(* A model of the knifefish128 block cipher (src/src/kf128.c): the LFSR,   *)
(* the pseudo-Hadamard transform, the box shuffles, the key schedule, the  *)
(* Feistel block function and the CBC file transforms.                     *)
(*                                                                         *)
(* A uint32_t is the sequence of its 32 bits, bit 0 first: the width is    *)
(* that of the C type, and XOR, shifts and wrap-around addition are        *)
(* computed on the bits.  A uint8_t is an integer in 0..255.  The tables   *)
(* of a context are functions over 0..n-1, indexed as in the source.  A    *)
(* word's bytes in memory are taken in little-endian order (byte j = bits  *)
(* 8j..8j+7), the order of the hosts the program is built for.             *)
(***************************************************************************)
EXTENDS Integers, Sequences, FiniteSets, TLC

-----------------------------------------------------------------------------
(* Program constants (kf128.h) *)

SBOX_SIZE == 256
SBOX_COUNT == 8
PBOX_SIZE == 8
ROUNDS == 16
WKEY_COUNT == 2
KEY_SIZE == 49
BLOCK_SIZE == 16

-----------------------------------------------------------------------------
(* Words and bytes *)

\* Devices that change no value, only when TLC computes it.  TLC keeps an
\* array written [j \in S |-> e] as the expression e and evaluates it again
\* at every use: Arr(f) is f (f extended by the empty function) and Vec(f)
\* is f (f with the empty sequence appended), enumerated once.  TLC
\* evaluates an operator's argument when it is first used: a loop written
\* LET h == <first half> IN IF Evaluated(h) THEN <second half on h>
\* computes h before it goes on, which keeps the evaluation shallow.
Arr(f) == f @@ <<>>
Vec(f) == f \o <<>>
Evaluated(v) == v = v

\* a uint32_t is the sequence of its 32 bits, bit 0 first
Bit(w, k) == w[k + 1]

ZeroWord == Vec([k \in 1..32 |-> 0])

\* the uint32_t whose four bytes, least significant first, are b0..b3
WordOfBytes(b0, b1, b2, b3) ==
  LET bs == <<b0, b1, b2, b3>>
  IN Vec([k \in 1..32 |-> (bs[((k - 1) \div 8) + 1] \div (2 ^ ((k - 1) % 8))) % 2])

\* byte j (0 = least significant) of a uint32_t
ByteOfWord(w, j) ==
  Bit(w, 8*j) + 2*Bit(w, 8*j + 1) + 4*Bit(w, 8*j + 2) + 8*Bit(w, 8*j + 3)
    + 16*Bit(w, 8*j + 4) + 32*Bit(w, 8*j + 5) + 64*Bit(w, 8*j + 6)
    + 128*Bit(w, 8*j + 7)

\* a ^ b on uint32_t
Xor32(a, b) == Vec([k \in 1..32 |-> (a[k] + b[k]) % 2])

\* the 16-bit integer in bits from..from+15 of a uint32_t
Half(w, from) ==
  Bit(w, from) + 2*Bit(w, from + 1) + 4*Bit(w, from + 2) + 8*Bit(w, from + 3)
    + 16*Bit(w, from + 4) + 32*Bit(w, from + 5) + 64*Bit(w, from + 6)
    + 128*Bit(w, from + 7) + 256*Bit(w, from + 8) + 512*Bit(w, from + 9)
    + 1024*Bit(w, from + 10) + 2048*Bit(w, from + 11)
    + 4096*Bit(w, from + 12) + 8192*Bit(w, from + 13)
    + 16384*Bit(w, from + 14) + 32768*Bit(w, from + 15)

\* a + b on uint32_t, wrapping modulo 2^32 (the two 16-bit halves are added
\* as integers, the carry of the low half going into the high half and the
\* carry of the high half being dropped)
AddHalves(sl, sh) ==
  Vec([k \in 1..32 |-> IF k <= 16 THEN (sl \div (2 ^ (k - 1))) % 2
                                  ELSE ((sh + (sl \div 65536)) \div (2 ^ (k - 17))) % 2])

Add32(a, b) == AddHalves(Half(a, 0) + Half(b, 0), Half(a, 16) + Half(b, 16))

-----------------------------------------------------------------------------
(* kf_lfsr, kf_lfsr_byte, kf_pht *)

\* one advance: the register shifted right by one, with the XOR of its bits
\* 31, 6, 4, 2, 1 and 0 as the new bit 31
kf_lfsr(r) ==
  LET fb == (Bit(r, 31) + Bit(r, 6) + Bit(r, 4) + Bit(r, 2) + Bit(r, 1)
               + Bit(r, 0)) % 2
  IN Append(Tail(r), fb)

\* n advances
RECURSIVE LfsrTimes(_, _)
LfsrTimes(r, n) ==
  IF n = 0 THEN r
  ELSE IF n = 1 THEN kf_lfsr(r)
  ELSE LET h == LfsrTimes(r, n \div 2)
       IN IF Evaluated(h) THEN LfsrTimes(h, n - (n \div 2)) ELSE h

\* the register after kf_lfsr_byte; the byte returned is its low 8 bits
kf_lfsr_byte(r) == LfsrTimes(r, 8)

\* a' = a + b, b' = a + 2b, modulo 2^32
kf_pht(a, b) == <<Add32(a, b), Add32(a, Add32(b, b))>>

-----------------------------------------------------------------------------
(* kf_init_sbox, kf_init_pbox: the shuffles *)

\* The arrays indexes[] and s[] of the shuffles are sequences: indexes[j] of
\* the source is indexes[j + 1] here, and s holds the entries written so far.

\* memmove(arr + dst, arr + dst + 1, n): the n entries after dst move down
\* by one; the entries after them stay
MemmoveDown(arr, dst, n) ==
  SubSeq(arr, 1, dst) \o SubSeq(arr, dst + 2, dst + n + 1)
    \o SubSeq(arr, dst + n + 1, Len(arr))

\* the locals of kf_init_sbox after its first loop; i counts the second loop
SboxStart(seed) ==
  [i |-> 0, seed_copy |-> seed, index |-> 0,
   indexes |-> Vec([j \in 1..SBOX_SIZE |-> j - 1]), s |-> <<>>]

\* (a shuffle that would reduce the byte modulo the whole table size)
SboxIndexWhole(byte, i) == byte % SBOX_SIZE

\* kf_lfsr_byte(&seed_copy) % (SBOX_SIZE - i), on the byte drawn
SboxIndex(byte, i) == byte % (SBOX_SIZE - i)

\* one iteration of the second loop of kf_init_sbox
SboxStep(st) ==
  LET reg == kf_lfsr_byte(st.seed_copy)
      index == SboxIndex(ByteOfWord(reg, 0), st.i)
  IN [i |-> st.i + 1,
      seed_copy |-> reg,
      index |-> index,
      indexes |-> MemmoveDown(st.indexes, index, SBOX_SIZE - index - 1),
      s |-> Append(st.s, st.indexes[index + 1])]

\* n iterations of the loop (split in halves, to keep the evaluation shallow)
RECURSIVE SboxLoop(_, _)
SboxLoop(st, n) ==
  IF n = 0 THEN st
  ELSE IF n = 1 THEN SboxStep(st)
  ELSE LET h == SboxLoop(st, n \div 2)
       IN IF Evaluated(h) THEN SboxLoop(h, n - (n \div 2)) ELSE h

\* the table kf_init_sbox leaves in s, as an array over 0..SBOX_SIZE-1
kf_init_sbox(seed) ==
  LET t == SboxLoop(SboxStart(seed), SBOX_SIZE).s
  IN Arr([j \in 0..(SBOX_SIZE - 1) |-> t[j + 1]])

PboxStart(seed) ==
  [i |-> 0, seed_copy |-> seed, index |-> 0,
   indexes |-> Vec([j \in 1..PBOX_SIZE |-> j - 1]), s |-> <<>>]

\* kf_lfsr_byte(&seed_copy) % (PBOX_SIZE - i), on the byte drawn
PboxIndex(byte, i) == byte % (PBOX_SIZE - i)

\* one iteration of the second loop of kf_init_pbox
PboxStep(st) ==
  LET reg == kf_lfsr_byte(st.seed_copy)
      index == PboxIndex(ByteOfWord(reg, 0), st.i)
  IN [i |-> st.i + 1,
      seed_copy |-> reg,
      index |-> index,
      indexes |-> MemmoveDown(st.indexes, index, PBOX_SIZE - index - 1),
      s |-> Append(st.s, st.indexes[index + 1])]

RECURSIVE PboxLoop(_, _)
PboxLoop(st, n) ==
  IF n = 0 THEN st
  ELSE IF n = 1 THEN PboxStep(st)
  ELSE LET h == PboxLoop(st, n \div 2)
       IN IF Evaluated(h) THEN PboxLoop(h, n - (n \div 2)) ELSE h

\* the table kf_init_pbox leaves in p, as an array over 0..PBOX_SIZE-1
kf_init_pbox(seed) ==
  LET t == PboxLoop(PboxStart(seed), PBOX_SIZE).s
  IN Arr([j \in 0..(PBOX_SIZE - 1) |-> t[j + 1]])

-----------------------------------------------------------------------------
(* kf_expand_passphrase: the key schedule *)

\* a passphrase is the sequence of its bytes before the terminating NUL;
\* passphrase[i] of the source is PassByte(p, i), defined for 0 <= i <= strlen
PassByte(p, i) == IF i < Len(p) THEN p[i + 1] ELSE 0

\* (uint8_t)x for an int x >= 0
U8(x) == x % 256

\* a | b on ints below 256
Or8(a, b) ==
  LET bit(x, k) == (x \div (2 ^ k)) % 2
      or(k) == IF bit(a, k) + bit(b, k) > 0 THEN 2 ^ k ELSE 0
  IN or(0) + or(1) + or(2) + or(3) + or(4) + or(5) + or(6) + or(7)

\* strlen(passphrase) > 256 ? 256 : strlen(passphrase)
PassLen(p) == IF Len(p) > 256 THEN 256 ELSE Len(p)

\* i < passlen - 4 on size_t: for passlen < 4 the difference wraps around to
\* 2^64 - (4 - passlen), which is above every i a run reaches
ChunkLoopGuard(i, passlen) == IF passlen < 4 THEN TRUE ELSE i < passlen - 4

\* the value the source loads into shift_register from four chars c0..c3
\* (each 0..127, so that every shift is defined):
\*   (uint8_t)c0 | (uint8_t)(c1 << 8) | (uint8_t)(c2 << 16) | (uint8_t)(c3 << 24)
LoadRegister(c0, c1, c2, c3) ==
  LET v == Or8(Or8(U8(c0), U8(c1 * (2 ^ 8))),
               Or8(U8(c2 * (2 ^ 16)), U8(c3 * (2 ^ 24))))
  IN WordOfBytes(v, 0, 0, 0)

\* one iteration of the loop over the accumulator: key[j] ^= shift_register,
\* then 32 advances.  m = [j, key, shift_register]
MixStep(m) ==
  [j |-> m.j + 1,
   key |-> [m.key EXCEPT ![m.j] = Xor32(m.key[m.j], m.shift_register)],
   shift_register |-> LfsrTimes(m.shift_register, 32)]

RECURSIVE MixLoop(_, _)
MixLoop(m, n) ==
  IF n = 0 THEN m
  ELSE IF n = 1 THEN MixStep(m)
  ELSE LET h == MixLoop(m, n \div 2)
       IN IF Evaluated(h) THEN MixLoop(h, n - (n \div 2)) ELSE h

\* the accumulator after the loop over j = 0..KEY_SIZE-1
MixKey(key, reg) ==
  MixLoop([j |-> 0, key |-> key, shift_register |-> reg], KEY_SIZE).key

\* the char array last[4] after the remainder loop
LastChars(p, passlen) ==
  Arr([i \in 0..3 |->
         IF i < passlen % 4 THEN PassByte(p, passlen - 4 + i) ELSE 0])

\* the tail of kf_expand_passphrase: the accumulator words, in order, seed
\* the S-boxes and the P-box and become the round subkeys and whitening keys
PartitionKey(key) ==
  [sbox |-> Arr([i \in 0..(SBOX_COUNT - 1) |-> kf_init_sbox(key[i])]),
   pbox |-> kf_init_pbox(key[SBOX_COUNT]),
   skey |-> Arr([i \in 0..(ROUNDS - 1) |->
              <<key[SBOX_COUNT + 1 + 2*i], key[SBOX_COUNT + 2 + 2*i]>>]),
   wkey |-> Arr([i \in 0..(WKEY_COUNT - 1) |->
              LET base == SBOX_COUNT + 1 + 2*ROUNDS + 4*i
              IN <<key[base], key[base + 1], key[base + 2], key[base + 3]>>])]

-----------------------------------------------------------------------------
(* kf_invert_ctx, kf_f, kf_round, kf_block *)

\* (an inversion that would swap the whitening keys and leave the round
\* keys in their order)
InvertWhiteningOnly(key) ==
  [key EXCEPT !.wkey = (0 :> key.wkey[1]) @@ (1 :> key.wkey[0])]

kf_invert_ctx(key) ==
  [sbox |-> key.sbox,
   pbox |-> key.pbox,
   skey |-> Arr([i \in 0..(ROUNDS - 1) |-> key.skey[ROUNDS - i - 1]]),
   wkey |-> (0 :> key.wkey[1]) @@ (1 :> key.wkey[0])]

\* a block is <<w0, w1, w2, w3>>; in[k] of the source is in[k + 1] here.
XorPair(a, b) == <<Xor32(a[1], b[1]), Xor32(a[2], b[2])>>

\* kf_f reads the two words in2 = <<in[2], in[3]>> of the round as 8 bytes
kf_f(in2, round, ctx) ==
  LET in8(i) == ByteOfWord(in2[(i \div 4) + 1], i % 4)
      sub(i) == ctx.sbox[i][in8(i)]
      \* out8[ctx->pbox[i]] = ctx->sbox[i][in8[i]], for i = 0..7 in order:
      \* position j holds what the last i with pbox[i] = j wrote
      out8(j) == sub(CHOOSE i \in 0..(SBOX_COUNT - 1) :
                       /\ ctx.pbox[i] = j
                       /\ \A i2 \in 0..(SBOX_COUNT - 1) :
                            ctx.pbox[i2] = j => i2 <= i)
  IN XorPair(kf_pht(WordOfBytes(out8(0), out8(1), out8(2), out8(3)),
                    WordOfBytes(out8(4), out8(5), out8(6), out8(7))),
             ctx.skey[round])

\* the output block of a round from its input and tmp = f ^ <<in[0], in[1]>>
RoundOut(in, tmp, round) ==
  IF round # ROUNDS - 1
    THEN <<in[3], in[4], tmp[1], tmp[2]>>
    ELSE <<tmp[1], tmp[2], in[3], in[4]>>

kf_round(in, round, ctx) ==
  RoundOut(in, XorPair(kf_f(<<in[3], in[4]>>, round, ctx), <<in[1], in[2]>>),
           round)

XorBlock(a, b) ==
  <<Xor32(a[1], b[1]), Xor32(a[2], b[2]), Xor32(a[3], b[3]), Xor32(a[4], b[4])>>

\* rounds i .. ROUNDS-1 applied to out
RECURSIVE Rounds(_, _, _)
RoundsFrom(h, i, ctx) == IF Evaluated(h) THEN Rounds(h, i, ctx) ELSE h

Rounds(out, i, ctx) ==
  IF i < ROUNDS THEN RoundsFrom(kf_round(out, i, ctx), i + 1, ctx) ELSE out

kf_block(in, ctx) ==
  XorBlock(Rounds(XorBlock(in, ctx.wkey[0]), 0, ctx), ctx.wkey[1])

-----------------------------------------------------------------------------
(* Files and blocks *)

\* a file, an IV and a padding buffer are sequences of bytes; memcpy or
\* fread of 16 bytes into a uint32_t[4], and back
BlockOfBytes(bs) ==
  <<WordOfBytes(bs[1], bs[2], bs[3], bs[4]),
    WordOfBytes(bs[5], bs[6], bs[7], bs[8]),
    WordOfBytes(bs[9], bs[10], bs[11], bs[12]),
    WordOfBytes(bs[13], bs[14], bs[15], bs[16])>>

BytesOfBlock(b) ==
  <<ByteOfWord(b[1], 0), ByteOfWord(b[1], 1), ByteOfWord(b[1], 2),
    ByteOfWord(b[1], 3), ByteOfWord(b[2], 0), ByteOfWord(b[2], 1),
    ByteOfWord(b[2], 2), ByteOfWord(b[2], 3), ByteOfWord(b[3], 0),
    ByteOfWord(b[3], 1), ByteOfWord(b[3], 2), ByteOfWord(b[3], 3),
    ByteOfWord(b[4], 0), ByteOfWord(b[4], 1), ByteOfWord(b[4], 2),
    ByteOfWord(b[4], 3)>>

ZeroBlock == <<ZeroWord, ZeroWord, ZeroWord, ZeroWord>>

\* the n bytes of file f after position pos
FileRead(f, pos, n) == SubSeq(f, pos + 1, pos + n)

-----------------------------------------------------------------------------
(* kf_encrypt_file_cbc *)

\* the locals after the file is measured: remaining, block_count, key = iv;
\* xored lists the values of key that have been XORed into a block so far
EncStart(input_size, ivbytes) ==
  LET remaining == input_size % BLOCK_SIZE
  IN [i |-> 0,
      pos |-> 0,
      input_size |-> input_size,
      remaining |-> remaining,
      block_count |-> (input_size \div BLOCK_SIZE)
                        + (IF remaining > 0 THEN 1 ELSE 0),
      key |-> BlockOfBytes(ivbytes),
      xored |-> <<>>]

\* the block iteration i enciphers: the last, partial one is the padding
\* with the remaining input bytes copied over its head and their count in
\* its last byte; any other is the next 16 input bytes
EncInputBlock(c, infile, pad) ==
  IF c.i = c.block_count - 1 /\ c.remaining # 0
    THEN BlockOfBytes(
           [k \in 1..BLOCK_SIZE |->
              IF k = BLOCK_SIZE THEN U8(c.remaining)
              ELSE IF k <= c.remaining THEN infile[c.pos + k]
              ELSE pad[k]])
    ELSE BlockOfBytes(FileRead(infile, c.pos, BLOCK_SIZE))

\* block ^= key; kf_block(block, tmp, &ctx)
EncCipherBlock(block, key, ctx) == kf_block(XorBlock(block, key), ctx)

\* (a chaining that would carry the block before it is enciphered)
EncNextKeyPlain(block, tmp) == block

\* memcpy(key, tmp, ...): the chaining value of the next iteration
EncNextKey(block, tmp) == tmp

\* input bytes consumed by iteration i
EncConsumed(c) ==
  IF c.i = c.block_count - 1 /\ c.remaining # 0 THEN c.remaining
  ELSE BLOCK_SIZE

\* (a tail that would emit the terminator block whatever the remainder)
EncTailAlways(c, ctx) ==
  BytesOfBlock(kf_block(XorBlock(ZeroBlock, c.key), ctx))

\* what follows the loop: for an input of whole blocks, one more block, all
\* zero, XORed with key and enciphered
EncTail(c, ctx) ==
  IF c.remaining = 0
    THEN BytesOfBlock(kf_block(XorBlock(ZeroBlock, c.key), ctx))
    ELSE <<>>

-----------------------------------------------------------------------------------------------------------------------------------------------------
(* kf_decrypt_file_cbc *)

\* fread(key, sizeof(uint32_t), 4, in) reads whole 4-byte items: the words
\* of key the file is too short to fill keep what the stack held (stray).
\* remaining is -1 until the last iteration declares it; xored lists the
\* values of key that have been XORed into a block so far.
DecStart(infile, stray) ==
  LET input_size == Len(infile)
      got == IF input_size >= BLOCK_SIZE THEN 4 ELSE input_size \div 4
      byte(k) == IF k <= 4 * got THEN infile[k] ELSE stray
  IN [i |-> 0,
      pos |-> 4 * got,
      input_size |-> input_size,
      remaining |-> -1,
      block_count |-> (input_size \div BLOCK_SIZE) - 1,
      key |-> BlockOfBytes([k \in 1..BLOCK_SIZE |-> byte(k)]),
      xored |-> <<>>]

\* kf_block(block, tmp, &inv); tmp ^= key
DecPlainBlock(block, key, inv) == XorBlock(kf_block(block, inv), key)

\* memcpy(key, block, ...): the chaining value of the next iteration
DecNextKey(block, tmp) == block

\* the padding-length indicator: ((uint8_t *)tmp)[BLOCK_SIZE - 1]
DecRemaining(tmp) == ByteOfWord(tmp[4], 3)

\* the bytes an iteration writes: all 16 of tmp, or for the last block as
\* many as tmp's last byte says; fwrite reads past tmp when that is above
\* 16, and writes what the stack holds there (stray)
DecOutput(last, tmp, stray) ==
  IF ~last THEN BytesOfBlock(tmp)
  ELSE SubSeq(BytesOfBlock(tmp) \o [k \in 1..(255 - BLOCK_SIZE) |-> stray],
              1, DecRemaining(tmp))

-----------------------------------------------------------------------------
(* Bounds and inputs *)

\* passphrases of the key-schedule runs: every string over PassChars of up
\* to MaxPassLen characters
MaxPassLen == 6
\* chunk iterations a run makes on memory past the passphrase before the
\* read faults at the latest
MaxStrayChunks == 2
\* plaintext lengths 0..MaxPlainLen
MaxPlainLen == 18
\* ciphertext stream lengths 0..MaxStreamLen handed to the decryptor alone
MaxStreamLen == 50
\* seeds and contexts are drawn from NumSeeds registers of one LFSR run
NumSeeds == 3

PassChars == {97, 116}

RECURSIVE StringsOver(_, _)
StringsOver(chars, n) ==
  IF n = 0 THEN {<<>>}
  ELSE {<<>>} \cup {<<c>> \o p : c \in chars, p \in StringsOver(chars, n - 1)}

\* "test" and "testA"
Test == <<116, 101, 115, 116>>
TestA == <<116, 101, 115, 116, 65>>

\* "abc" (shorter than a chunk), "test" and "testA"
RoundTripPassphrases == {<<97, 98, 99>>, Test, TestA}

\* what a read of memory the program does not own may return: as a char of
\* the passphrase's neighbourhood, as a byte of the stack
StrayChars == {0, 127}
StrayBytes == {0, 255}

ZeroIV == [k \in 1..BLOCK_SIZE |-> 0]
IVs == {ZeroIV, [k \in 1..BLOCK_SIZE |-> (17 * k + 3) % 256]}
Paddings == {[k \in 1..BLOCK_SIZE |-> 255],
             [k \in 1..BLOCK_SIZE |-> (29 * k + 11) % 256]}

\* the bytes 1, 2, .., n for every length n, and one block of 0x41
Plaintexts ==
  {[k \in 1..n |-> k % 256] : n \in 0..MaxPlainLen}
    \cup {[k \in 1..BLOCK_SIZE |-> 65]}

\* streams handed to the decryptor that no encryption need have written
Streams ==
  {[k \in 1..n |-> (m * k + n) % 256] : n \in 0..MaxStreamLen, m \in {0, 7}}

\* 0xDEADBEEF, the seed of test/pbox/pbox.c
TestSeed == WordOfBytes(239, 190, 173, 222)

\* register n of the LFSR run from TestSeed, 32 advances apart
SeedNo(n) == LfsrTimes(TestSeed, 32 * n)

Seeds == {ZeroWord} \cup {SeedNo(n) : n \in 0..NumSeeds}

-----------------------------------------------------------------------------
(* State *)

VARIABLES
  pc,          \* where the run is: "chunks", "open", "loop", "returned",
               \* "crashed"; in the runs of one function also "shuffle",
               \* "block", "enciphered", "inverted"
  caller,      \* the function running: "expand", "encrypt", "decrypt",
               \* "kf_init_sbox", "kf_init_pbox", "kf_block"
  passphrase,  \* the passphrase argument
  ks,          \* kf_expand_passphrase: i, key, and the chunks it has loaded
  ctx,         \* the cipher context kf_expand_passphrase filled
  inv,         \* the inverted context
  iv,          \* the iv argument
  padding,     \* the padding argument
  plain,       \* the plaintext file
  cipher,      \* the ciphertext file
  recovered,   \* the file the decryptor writes
  cbc,         \* the locals of the file transform running
  perm,        \* the locals of kf_init_sbox or kf_init_pbox running
  blk          \* the blocks of a kf_block run

vars == <<pc, caller, passphrase, ks, ctx, inv, iv, padding, plain, cipher,
          recovered, cbc, perm, blk>>

None == <<>>

ZeroKey == Arr([j \in 0..(KEY_SIZE - 1) |-> ZeroWord])

\* the locals of kf_expand_passphrase on entry
KsStart == [i |-> 0, key |-> ZeroKey, chunks |-> <<>>, last |-> <<>>]

-----------------------------------------------------------------------------
(* kf_expand_passphrase, step by step *)

passlen == PassLen(passphrase)

\* One iteration of the chunk loop.  The four chars at i..i+3 are read; a
\* read past the terminating NUL is a read of memory that is not the
\* passphrase's: it faults, or returns whatever lies there.
ChunkStep ==
  /\ pc = "chunks"
  /\ ChunkLoopGuard(ks.i, passlen)
  /\ LET past == ks.i + 3 > Len(passphrase)
         strayChunks == Cardinality({n \in DOMAIN ks.chunks : ks.chunks[n].past})
     IN \E fault \in (IF ~past THEN {FALSE}
                      ELSE IF strayChunks >= MaxStrayChunks THEN {TRUE}
                      ELSE BOOLEAN),
           stray \in (IF past THEN StrayChars ELSE {0}) :
          IF fault
            THEN /\ pc' = "crashed"
                 /\ ks' = ks
            ELSE LET char(k) == IF ks.i + k <= Len(passphrase)
                                  THEN PassByte(passphrase, ks.i + k)
                                  ELSE stray
                     reg == LoadRegister(char(0), char(1), char(2), char(3))
                 IN /\ pc' = "chunks"
                    /\ ks' = [ks EXCEPT
                         !.i = ks.i + 4,
                         !.key = MixKey(ks.key, reg),
                         !.chunks = Append(ks.chunks,
                            [at |-> ks.i, past |-> past,
                             chars |-> <<char(0), char(1), char(2), char(3)>>,
                             reg |-> reg])]
  /\ UNCHANGED <<caller, passphrase, ctx, inv, iv, padding, plain, cipher,
                 recovered, cbc, perm, blk>>

\* The loop has ended: the remainder step, then the context is filled and
\* the function returns to its caller.
Remainder ==
  /\ pc = "chunks"
  /\ ~ChunkLoopGuard(ks.i, passlen)
  /\ LET last == LastChars(passphrase, passlen)
         reg == LoadRegister(last[0], last[1], last[2], last[3])
         key == MixKey(ks.key, reg)
     IN /\ ks' = [ks EXCEPT !.key = key,
                            !.last = <<[chars |-> last, reg |-> reg]>>]
        /\ ctx' = PartitionKey(key)
  /\ pc' = IF caller = "expand" THEN "returned" ELSE "open"
  /\ UNCHANGED <<caller, passphrase, inv, iv, padding, plain, cipher,
                 recovered, cbc, perm, blk>>

-----------------------------------------------------------------------------
(* kf_encrypt_file_cbc, step by step *)

\* fopen, fwrite(iv), the file is measured, key = iv
EncOpen ==
  /\ pc = "open" /\ caller = "encrypt"
  /\ \E ivbytes \in IVs, pad \in Paddings, infile \in Plaintexts :
       /\ iv' = ivbytes
       /\ padding' = pad
       /\ plain' = infile
       /\ cipher' = ivbytes
       /\ cbc' = EncStart(Len(infile), ivbytes)
  /\ pc' = "loop"
  /\ UNCHANGED <<caller, passphrase, ks, ctx, inv, recovered, perm, blk>>

\* one iteration of the block loop
EncBlock ==
  /\ pc = "loop" /\ caller = "encrypt"
  /\ cbc.i < cbc.block_count
  /\ \E block \in {EncInputBlock(cbc, plain, padding)} :
       \E tmp \in {EncCipherBlock(block, cbc.key, ctx)} :
         /\ cbc' = [cbc EXCEPT !.i = cbc.i + 1,
                               !.pos = cbc.pos + EncConsumed(cbc),
                               !.xored = Append(@, cbc.key),
                               !.key = EncNextKey(block, tmp)]
         /\ cipher' = cipher \o BytesOfBlock(tmp)
  /\ UNCHANGED <<pc, caller, passphrase, ks, ctx, inv, iv, padding, plain,
                 recovered, perm, blk>>

\* after the loop: the terminator block if one is due, fclose, return
EncFinish ==
  /\ pc = "loop" /\ caller = "encrypt"
  /\ cbc.i >= cbc.block_count
  /\ cipher' = cipher \o EncTail(cbc, ctx)
  /\ cbc' = [cbc EXCEPT !.xored = IF cbc.remaining = 0 THEN Append(@, cbc.key)
                                  ELSE @]
  /\ pc' = "returned"
  /\ UNCHANGED <<caller, passphrase, ks, ctx, inv, iv, padding, plain,
                 recovered, perm, blk>>

-----------------------------------------------------------------------------
(* kf_decrypt_file_cbc, step by step *)

\* the program is run again with the passphrase, to decrypt what it wrote
CallDecrypt ==
  /\ pc = "returned" /\ caller = "encrypt"
  /\ caller' = "decrypt"
  /\ pc' = "chunks"
  /\ ks' = KsStart
  /\ ctx' = None
  /\ cbc' = None
  /\ UNCHANGED <<passphrase, inv, iv, padding, plain, cipher, recovered,
                 perm, blk>>

\* kf_invert_ctx, fopen of infile, the file is measured, fread(key)
DecOpenFile(infile) ==
  /\ pc = "open" /\ caller = "decrypt"
  /\ inv' = kf_invert_ctx(ctx)
  /\ cipher' = infile
  /\ \E stray \in (IF Len(infile) >= BLOCK_SIZE THEN {0} ELSE StrayBytes) :
       cbc' = DecStart(infile, stray)
  /\ recovered' = <<>>
  /\ pc' = "loop"
  /\ UNCHANGED <<caller, passphrase, ks, ctx, iv, padding, plain, perm, blk>>

\* the file is the one the encryption wrote
DecOpen == DecOpenFile(cipher)

\* the file is any stream
DecOpenStream == \E infile \in Streams : DecOpenFile(infile)

\* one iteration of the block loop
DecBlock ==
  /\ pc = "loop" /\ caller = "decrypt"
  /\ cbc.i < cbc.block_count
  /\ \E block \in {BlockOfBytes(FileRead(cipher, cbc.pos, BLOCK_SIZE))} :
       \E tmp \in {DecPlainBlock(block, cbc.key, inv)} :
         LET last == cbc.i = cbc.block_count - 1
             over == last /\ DecRemaining(tmp) > BLOCK_SIZE
         IN /\ \E stray \in (IF over THEN StrayBytes ELSE {0}) :
                 recovered' = recovered \o DecOutput(last, tmp, stray)
            /\ cbc' = [cbc EXCEPT
                 !.i = cbc.i + 1,
                 !.pos = cbc.pos + BLOCK_SIZE,
                 !.remaining = IF last THEN DecRemaining(tmp) ELSE @,
                 !.xored = Append(@, cbc.key),
                 !.key = DecNextKey(block, tmp)]
  /\ UNCHANGED <<pc, caller, passphrase, ks, ctx, inv, iv, padding, plain,
                 cipher, perm, blk>>

\* after the loop: fclose, return
DecFinish ==
  /\ pc = "loop" /\ caller = "decrypt"
  /\ cbc.i >= cbc.block_count
  /\ pc' = "returned"
  /\ UNCHANGED <<caller, passphrase, ks, ctx, inv, iv, padding, plain,
                 cipher, recovered, cbc, perm, blk>>

-----------------------------------------------------------------------------
(* The program: a file is encrypted, then decrypted with the passphrase *)

Init ==
  /\ pc = "chunks"
  /\ caller = "encrypt"
  /\ passphrase \in RoundTripPassphrases
  /\ ks = KsStart
  /\ ctx = None
  /\ inv = None
  /\ iv = None
  /\ padding = None
  /\ plain = None
  /\ cipher = None
  /\ recovered = None
  /\ cbc = None
  /\ perm = None
  /\ blk = None

Next ==
  \/ ChunkStep
  \/ Remainder
  \/ EncOpen
  \/ EncBlock
  \/ EncFinish
  \/ CallDecrypt
  \/ DecOpen
  \/ DecBlock
  \/ DecFinish

Spec == Init /\ [][Next]_vars

-----------------------------------------------------------------------------
(* kf_expand_passphrase alone, on every passphrase of up to MaxPassLen      *)
(* characters                                                               *)

InitKey ==
  /\ pc = "chunks"
  /\ caller = "expand"
  /\ passphrase \in StringsOver(PassChars, MaxPassLen)
  /\ ks = KsStart
  /\ ctx = None
  /\ inv = None
  /\ iv = None
  /\ padding = None
  /\ plain = None
  /\ cipher = None
  /\ recovered = None
  /\ cbc = None
  /\ perm = None
  /\ blk = None

NextKey ==
  \/ ChunkStep
  \/ Remainder

SpecKey == InitKey /\ [][NextKey]_vars

-----------------------------------------------------------------------------
(* kf_decrypt_file_cbc alone, with the passphrase "testA", on any stream    *)

InitDecrypt ==
  /\ pc = "chunks"
  /\ caller = "decrypt"
  /\ passphrase = TestA
  /\ ks = KsStart
  /\ ctx = None
  /\ inv = None
  /\ iv = None
  /\ padding = None
  /\ plain = None
  /\ cipher = None
  /\ recovered = None
  /\ cbc = None
  /\ perm = None
  /\ blk = None

NextDecrypt ==
  \/ ChunkStep
  \/ Remainder
  \/ DecOpenStream
  \/ DecBlock
  \/ DecFinish

SpecDecrypt == InitDecrypt /\ [][NextDecrypt]_vars

-----------------------------------------------------------------------------
(* kf_init_sbox and kf_init_pbox alone, step by step, on every seed of Seeds *)

InitPerm ==
  /\ pc = "shuffle"
  /\ \E seed \in Seeds :
       \/ caller = "kf_init_sbox" /\ perm = [seed |-> seed, st |-> SboxStart(seed)]
       \/ caller = "kf_init_pbox" /\ perm = [seed |-> seed, st |-> PboxStart(seed)]
  /\ passphrase = None
  /\ ks = None
  /\ ctx = None
  /\ inv = None
  /\ iv = None
  /\ padding = None
  /\ plain = None
  /\ cipher = None
  /\ recovered = None
  /\ cbc = None
  /\ blk = None

\* one iteration of the second loop of kf_init_sbox; the function returns
\* after the last
SboxShuffle ==
  /\ pc = "shuffle" /\ caller = "kf_init_sbox"
  /\ perm.st.i < SBOX_SIZE
  /\ perm' = [perm EXCEPT !.st = SboxStep(perm.st)]
  /\ pc' = IF perm.st.i + 1 < SBOX_SIZE THEN "shuffle" ELSE "returned"
  /\ UNCHANGED <<caller, passphrase, ks, ctx, inv, iv, padding, plain, cipher,
                 recovered, cbc, blk>>

\* one iteration of the second loop of kf_init_pbox
PboxShuffle ==
  /\ pc = "shuffle" /\ caller = "kf_init_pbox"
  /\ perm.st.i < PBOX_SIZE
  /\ perm' = [perm EXCEPT !.st = PboxStep(perm.st)]
  /\ pc' = IF perm.st.i + 1 < PBOX_SIZE THEN "shuffle" ELSE "returned"
  /\ UNCHANGED <<caller, passphrase, ks, ctx, inv, iv, padding, plain, cipher,
                 recovered, cbc, blk>>

NextPerm ==
  \/ SboxShuffle
  \/ PboxShuffle

SpecPerm == InitPerm /\ [][NextPerm]_vars

-----------------------------------------------------------------------------
(* kf_block alone: a block is enciphered with a context, the context is     *)
(* inverted, and the result is put through kf_block with the inverse        *)

\* the context the key schedule fills from an accumulator into which one
\* register has been mixed
CtxOfSeed(seed) == PartitionKey(MixKey(ZeroKey, seed))

\* a context whose S-boxes are not bijections: every table maps v to v / 2
Flattened(c) ==
  [c EXCEPT !.sbox = Arr([i \in 0..(SBOX_COUNT - 1) |->
                            Arr([v \in 0..(SBOX_SIZE - 1) |-> v \div 2])])]

Contexts ==
  {CtxOfSeed(SeedNo(n)) : n \in 1..NumSeeds}
    \cup {Flattened(CtxOfSeed(TestSeed))}

OnesWord == Vec([k \in 1..32 |-> 1])

BlockWords == {ZeroWord, TestSeed, OnesWord}

Blocks == {<<a, b, c, d>> : a \in BlockWords, b \in BlockWords,
                            c \in {ZeroWord, TestSeed}, d \in {ZeroWord, OnesWord}}

InitBlock ==
  /\ pc = "block"
  /\ caller = "kf_block"
  /\ ctx \in Contexts
  /\ inv = None
  /\ blk = None
  /\ passphrase = None
  /\ ks = None
  /\ iv = None
  /\ padding = None
  /\ plain = None
  /\ cipher = None
  /\ recovered = None
  /\ cbc = None
  /\ perm = None

\* kf_block(x, y, &ctx)
BlockEncipher ==
  /\ pc = "block" /\ caller = "kf_block"
  /\ \E x \in Blocks : blk' = [x |-> x, y |-> kf_block(x, ctx), z |-> <<>>]
  /\ pc' = "enciphered"
  /\ UNCHANGED <<caller, passphrase, ks, ctx, inv, iv, padding, plain, cipher,
                 recovered, cbc, perm>>

\* kf_invert_ctx(&ctx, &inv)
BlockInvert ==
  /\ pc = "enciphered" /\ caller = "kf_block"
  /\ inv' = kf_invert_ctx(ctx)
  /\ pc' = "inverted"
  /\ UNCHANGED <<caller, passphrase, ks, ctx, iv, padding, plain, cipher,
                 recovered, cbc, perm, blk>>

\* kf_block(y, z, &inv)
BlockDecipher ==
  /\ pc = "inverted" /\ caller = "kf_block"
  /\ blk' = [blk EXCEPT !.z = kf_block(blk.y, inv)]
  /\ pc' = "returned"
  /\ UNCHANGED <<caller, passphrase, ks, ctx, inv, iv, padding, plain, cipher,
                 recovered, cbc, perm>>

NextBlock ==
  \/ BlockEncipher
  \/ BlockInvert
  \/ BlockDecipher

SpecBlock == InitBlock /\ [][NextBlock]_vars

-----------------------------------------------------------------------------
(* Properties of the shuffles (SpecPerm) *)

\* the values a sequence holds
Range(q) == {q[k] : k \in DOMAIN q}

ShuffleSize == IF caller = "kf_init_sbox" THEN SBOX_SIZE ELSE PBOX_SIZE

\* the values not yet placed: the first size - i entries of indexes
Pool == SubSeq(perm.st.indexes, 1, ShuffleSize - perm.st.i)

\* the table the function computes for the seed of the run, as a sequence
ShuffleTable ==
  LET t == IF caller = "kf_init_sbox" THEN kf_init_sbox(perm.seed)
           ELSE kf_init_pbox(perm.seed)
  IN [j \in 1..ShuffleSize |-> t[j - 1]]

\* C3: for every seed, kf_init_sbox yields a bijection over 0..255 and
\* kf_init_pbox one over 0..PBOX_SIZE-1.  At every step of either shuffle
\* the i values placed so far are distinct, the pool holds exactly the
\* values not yet placed, each once, and the index selected was inside the
\* pool as it was before the selection; at return every value of the range
\* appears exactly once in the table, which is the table the function gives.
C3_ShuffleBijection ==
  /\ Len(perm.st.s) = perm.st.i
  /\ Cardinality(Range(perm.st.s)) = perm.st.i
  /\ Cardinality(Range(Pool)) = ShuffleSize - perm.st.i
  /\ Range(perm.st.s) \cup Range(Pool) = 0..(ShuffleSize - 1)
  /\ perm.st.i > 0 => perm.st.index < ShuffleSize - (perm.st.i - 1)
  /\ pc = "returned" =>
       /\ Len(perm.st.s) = ShuffleSize
       /\ Range(perm.st.s) = 0..(ShuffleSize - 1)
       /\ perm.st.s = ShuffleTable

\* kf_init_sbox has returned for the seed 0xDEADBEEF with a table that is
\* not the identity, after selections at indexes other than 0
C3_Witness ==
  /\ pc = "returned"
  /\ caller = "kf_init_sbox"
  /\ perm.seed = TestSeed
  /\ perm.st.i = SBOX_SIZE
  /\ perm.st.s[1] # 0
  /\ perm.st.s[SBOX_SIZE - 1] # SBOX_SIZE - 2

-----------------------------------------------------------------------------
(* Properties of the block function (SpecBlock) *)

\* C2: for every context and every block x,
\* kf_block(kf_block(x, ctx), kf_invert_ctx(ctx)) = x: once the enciphered
\* block has been put through kf_block with the inverted context, the
\* result is the block that was enciphered.
C2_BlockInverse ==
  pc = "returned" => blk.z = blk.x

\* a block has been enciphered to a different block and deciphered again
C2_Witness ==
  /\ pc = "returned"
  /\ caller = "kf_block"
  /\ blk.x = <<TestSeed, ZeroWord, TestSeed, OnesWord>>
  /\ blk.y # blk.x
  /\ blk.z = blk.x

-----------------------------------------------------------------------------
(* Properties of the file transforms (Spec) *)

\* block k of a file, the first being block 0
FileBlock(f, k) ==
  BlockOfBytes(SubSeq(f, BLOCK_SIZE * k + 1, BLOCK_SIZE * (k + 1)))

\* the block the encryption builds in its iteration k - 1, or the all-zero
\* block of the terminator after the last iteration
PlainBlockNo(k) ==
  IF k > cbc.block_count THEN ZeroBlock
  ELSE EncInputBlock([cbc EXCEPT !.i = k - 1, !.pos = BLOCK_SIZE * (k - 1)],
                     plain, padding)

\* the bytes of t that fall inside file f from position from on are there
PrefixAgrees(f, from, t) ==
  \A j \in 1..BLOCK_SIZE : from + j <= Len(f) => f[from + j] = t[j]

\* the encryption has written all of the ciphertext
EncryptDone == (caller = "encrypt" /\ pc = "returned") \/ caller = "decrypt"

FiveBytes == <<1, 2, 3, 4, 5>>

\* C10: CBC chaining order.  The encryption's output starts with the IV
\* unmodified; the k-th value of key XORed into a block (the terminator's
\* included) is block k - 1 of the output: the IV first, then the cipher
\* block written before; and on return cipher block k is kf_block of the
\* k-th input block XORed with output block k - 1.  In the decryption the
\* k-th value XORed is block k - 1 of the stream as read, and on return
\* the recovered bytes of block k are those of kf_block(block k, inv)
\* XORed with stream block k - 1.
C10_ChainingOrder ==
  /\ (caller = "encrypt" /\ pc \in {"loop", "returned"}) =>
       /\ SubSeq(cipher, 1, BLOCK_SIZE) = iv
       /\ Len(cipher) = BLOCK_SIZE * (1 + Len(cbc.xored))
       /\ \A k \in DOMAIN cbc.xored : cbc.xored[k] = FileBlock(cipher, k - 1)
       /\ pc = "loop" => cbc.key = FileBlock(cipher, cbc.i)
       /\ pc = "returned" =>
            \A k \in DOMAIN cbc.xored :
              FileBlock(cipher, k)
                = kf_block(XorBlock(PlainBlockNo(k), FileBlock(cipher, k - 1)),
                           ctx)
  /\ (caller = "decrypt" /\ pc \in {"loop", "returned"}) =>
       /\ Len(cbc.xored) = cbc.i
       /\ \A k \in DOMAIN cbc.xored : cbc.xored[k] = FileBlock(cipher, k - 1)
       /\ pc = "returned" =>
            \A k \in DOMAIN cbc.xored :
              PrefixAgrees(recovered, BLOCK_SIZE * (k - 1),
                BytesOfBlock(XorBlock(kf_block(FileBlock(cipher, k), inv),
                                      FileBlock(cipher, k - 1))))

\* a plaintext of one whole block has been encrypted (a cipher block and
\* the terminator, chained) and decrypted, two chaining values XORed
C10_Witness ==
  /\ caller = "decrypt"
  /\ pc = "returned"
  /\ Len(plain) = BLOCK_SIZE
  /\ Len(cipher) = 3 * BLOCK_SIZE
  /\ Len(cbc.xored) = 2
  /\ cbc.xored[2] = FileBlock(cipher, 1)
  /\ cbc.xored[2] # FileBlock(recovered, 0)

\* C4 (as the code has it): encrypting the 5-byte plaintext 1,2,3,4,5 with
\* passphrase "test" and an all-zero IV produces a stream of exactly 2
\* blocks (32 bytes): the IV block followed by 1 cipher block.
C4_TwoBlocks ==
  (EncryptDone /\ passphrase = Test /\ iv = ZeroIV /\ plain = FiveBytes) =>
    /\ Len(cipher) = 2 * BLOCK_SIZE
    /\ SubSeq(cipher, 1, BLOCK_SIZE) = ZeroIV

\* the encryption of the five bytes under "test" and the zero IV has returned
C4_Witness ==
  /\ caller = "encrypt"
  /\ pc = "returned"
  /\ passphrase = Test
  /\ iv = ZeroIV
  /\ plain = FiveBytes
  /\ cbc.block_count = 1
  /\ Len(cipher) = 2 * BLOCK_SIZE

\* C4 (as claimed): the same encryption produces a stream of exactly 3
\* blocks (48 bytes): the IV block followed by 2 cipher blocks.
C4_ThreeBlocks ==
  (EncryptDone /\ passphrase = Test /\ iv = ZeroIV /\ plain = FiveBytes) =>
    Len(cipher) = 3 * BLOCK_SIZE

\* C1: for every passphrase, IV, padding and plaintext, the decryption with
\* the same passphrase of what the encryption wrote produces exactly the
\* plaintext: no run of either transform ends otherwise than by returning,
\* and the decryption returns with the file it wrote equal to the plaintext.
C1_RoundTrip ==
  /\ pc # "crashed"
  /\ (caller = "decrypt" /\ pc = "returned") => recovered = plain

\* the part of C1 that the code meets: a decryption that returns has
\* written exactly the plaintext
RoundTripOnReturn ==
  (caller = "decrypt" /\ pc = "returned") => recovered = plain

-----------------------------------------------------------------------------
(* Properties of the decryption of any stream (SpecDecrypt) *)

\* a stream that is not an IV and at least one cipher block, in whole blocks
Malformed(n) == n < 2 * BLOCK_SIZE \/ n % BLOCK_SIZE # 0

\* C5: whenever the last byte of the final recovered block is greater than
\* 15 the stream is rejected as corrupt: the decryption does not return
\* normally, and it has emitted no more than 15 bytes of the final block.
C5_RejectsPaddingLength ==
  (caller = "decrypt" /\ pc \in {"loop", "returned"} /\ cbc.remaining > 15) =>
    /\ pc # "returned"
    /\ Len(recovered) <= BLOCK_SIZE * (cbc.block_count - 1) + 15

\* C6: a stream shorter than 32 bytes, or not a whole multiple of 16 bytes,
\* is rejected before any block is decoded: the decryption does not return
\* normally, deciphers no block and writes no plaintext.
C6_RejectsMalformed ==
  (caller = "decrypt" /\ pc \in {"loop", "returned"} /\ Malformed(Len(cipher))) =>
    /\ pc # "returned"
    /\ cbc.i = 0
    /\ recovered = <<>>

-----------------------------------------------------------------------------
(* Properties of the key schedule (SpecKey) *)

\* C7: for a passphrase of 0, 1, 2 or 3 bytes the chunk loop executes zero
\* times: no chunk is loaded, so no byte at an index at or past the
\* passphrase length is read, and the function does not fault.
C7_NoChunkWhenShort ==
  Len(passphrase) < 4 => (ks.chunks = <<>> /\ pc # "crashed")

\* C8: for each chunk processed at offset i (the four bytes at i .. i+3 of
\* the passphrase) the register is loaded with the full little-endian word
\* p[i] | p[i+1]<<8 | p[i+2]<<16 | p[i+3]<<24.
C8_FullWordLoaded ==
  \A n \in DOMAIN ks.chunks :
    ks.chunks[n].at + 4 <= Len(passphrase) =>
      ks.chunks[n].reg = WordOfBytes(ks.chunks[n].chars[1], ks.chunks[n].chars[2],
                                     ks.chunks[n].chars[3], ks.chunks[n].chars[4])

\* C9: for a passphrase of length L >= 4 the chunks processed partition
\* it: on return the loop has processed the floor(L/4) chunks at offsets
\* 0, 4, .., each holding the four bytes at its offset, and the remainder
\* step has run once on the trailing L mod 4 bytes zero-padded to 4.
C9_ChunksPartition ==
  (pc = "returned" /\ Len(passphrase) >= 4) =>
    /\ Len(ks.chunks) = Len(passphrase) \div 4
    /\ \A n \in DOMAIN ks.chunks :
         /\ ks.chunks[n].at = 4 * (n - 1)
         /\ ks.chunks[n].chars = SubSeq(passphrase, 4 * n - 3, 4 * n)
    /\ Len(ks.last) = 1
    /\ \A j \in 0..3 :
         ks.last[1].chars[j] =
           IF j < Len(passphrase) % 4
             THEN passphrase[4 * (Len(passphrase) \div 4) + j + 1]
             ELSE 0

=============================================================================
